---- MODULE Spec2Model ----
(***************************************************************************)
(* Model of integron_finder/attc.py: the attC clustering (search_attc) and *)
(* the windowed re-search controller (find_attc_max).                      *)
(*                                                                         *)
(* Coordinates are scaled down: replicons have a handful of base pairs and  *)
(* positions are 1-based coordinates on them.                              *)
(***************************************************************************)
EXTENDS Integers, Sequences, FiniteSets, TLC

\* ------------------------------------------------------------------ bounds
\* Largest number of rows of the hit table given to search_attc.
MaxRows == 3

\* Longest replicon of the search_attc runs: replicon_size is in 1..MaxPos
\* and the positions are the 1-based coordinates 1..replicon_size.
MaxPos == 5

\* Replicon length of the find_attc_max runs (positions are 1..MaxSize).
MaxSize == 5

\* Largest cpu given to find_attc.
MaxCpu == 2

\* Largest return code of cmsearch.
MaxReturnCode == 2

\* Most integrons in the report of one replicon.
MaxReportIntegrons == 2

\* Most attC rows of one integron of a report.
MaxAttcRows == 2

\* Largest threshold given to filter_calin.
MaxFilterThreshold == 2

\* Largest distance_threshold of the find_attc_max runs.
MaxThreshold == 2

\* Longest list of integrons given to find_attc_max.
MaxIntegrons == 2

\* e-values are the levels 1 (best) and 2.
Evalues == {1, 2}

Sens == {"+", "-"}

VARIABLES
    \* ---- search_attc
    pc,               \* "input" | "clustered" | "reclustered" | "idle"
    attc_df,          \* the hit table given by the caller
    keep_palindromes,
    dist_threshold,
    replicon_size,
    run,              \* the locals and result of the call on attc_df
    rerun,            \* the locals and result of the call on its own single cluster
    \* ---- find_attc_max
    mpc,              \* "loop" | "describe" | "local_max" | "expand" | "returned" | "raised" | "idle"
    size_replicon,    \* len(replicon)
    distance_threshold,
    circular,
    n_done,           \* how many integrons of the list are done
    full_element,     \* i.describe() of the integron at hand
    max_final,        \* the running result table
    index,            \* max_final.index, the row labels of the running result table
    max_elt,          \* the hits of the integron at hand
    df_max,           \* what local_max returned
    strand,           \* the local strand: "unbound" | "top" | "bottom"
    window_beg,
    window_end,
    go,               \* <<search_left, search_right>> given to expand
    error,            \* the exception that ended the run
    calls,            \* <<calls of local_max, calls of expand>> for the integron at hand
    \* ---- find_attc
    fpc,              \* "start" | "built" | "called" | "returned" | "raised" | "idle"
    replicon_id,
    cmsearch_path,
    out_dir,
    cpu,
    cmsearch_cmd,     \* the command line, a list of words
    returncode,       \* what call(cmsearch_cmd) returned
    n_call,           \* how many times call(cmsearch_cmd) was run
    exc,              \* the exception find_attc raised
    \* ---- merge_results and filter_calin
    rpc,              \* "files" | "merged" | "filtered" | "idle"
    results_file,     \* the report of each file, empty for a file without data
    threshold,
    agg_results,      \* what merge_results returned, the argument result of filter_calin
    filtered          \* what filter_calin returned

svars == <<pc, attc_df, keep_palindromes, dist_threshold, replicon_size, run, rerun>>

mvars == <<mpc, size_replicon, distance_threshold, circular, n_done, full_element, max_final,
           index, max_elt, df_max, strand, window_beg, window_end, go, error, calls>>

fvars == <<fpc, replicon_id, cmsearch_path, out_dir, cpu, cmsearch_cmd, returncode, n_call, exc>>

rvars == <<rpc, results_file, threshold, agg_results, filtered>>

vars == <<svars, mvars, fvars, rvars>>

\* The variables of the functions other than the one that runs.
beside_search == <<mvars, fvars, rvars>>

beside_max == <<svars, fvars, rvars>>

beside_find == <<svars, mvars, rvars>>

beside_results == <<svars, mvars, fvars>>

\* A local that holds no position.
Unset == -1

\* No integron at hand.
NoElement == [type |-> "none", intI |-> <<>>, attC |-> <<>>, strand |-> 1, model |-> "none"]

\* ------------------------------------------------------------ hit tables
\* A row of the hit table. pos_beg, sens and evalue are the columns
\* search_attc reads; hit stands for the columns it only carries along
\* (Accession_number, cm_attC, cm_debut, cm_fin, pos_end) and identifies the
\* hit: it is the row's ordinal in the caller's table.
RowValues == [pos_beg : 1..MaxPos, sens : Sens, evalue : Evalues]

MkRow(i, r) == [hit |-> i, pos_beg |-> r.pos_beg, sens |-> r.sens, evalue |-> r.evalue]

IsSortedByPosBeg(t) == \A i \in 1..(Len(t) - 1) : t[i].pos_beg <= t[i + 1].pos_beg

\* The tables a caller passes: sorted along the start site (docstring of
\* search_attc), at most MaxRows rows.
TablesOfLen(n) ==
    { [i \in 1..n |-> MkRow(i, f[i])] :
        f \in { g \in [1..n -> RowValues] : IsSortedByPosBeg(g) } }

HitTables == UNION { TablesOfLen(n) : n \in 0..MaxRows }

\* ---------------------------------------------------------- search_attc
\* attc_df[attc_df.sens == s]
StrandRows(df, s) == SelectSeq(df, LAMBDA r : r.sens = s)

\* Key order of sort_values(["pos_beg", "evalue"]).
KeyLeq(a, b) ==
    \/ a.pos_beg < b.pos_beg
    \/ a.pos_beg = b.pos_beg /\ a.evalue <= b.evalue

\* Insert r behind every row whose key is not greater (stable).
RECURSIVE InsertSorted(_, _)
InsertSorted(r, t) ==
    IF t = <<>> THEN <<r>>
    ELSE IF KeyLeq(t[1], r) THEN <<t[1]>> \o InsertSorted(r, Tail(t))
    ELSE <<r>> \o t

\* sort_values on several columns is a stable lexicographic sort.
RECURSIVE SortValues(_)
SortValues(df) ==
    IF df = <<>> THEN <<>>
    ELSE InsertSorted(df[Len(df)], SortValues(SubSeq(df, 1, Len(df) - 1)))

\* Mutant of DropDuplicates: keep="last".
DropDuplicatesLast(df) ==
    LET idx == { i \in 1..Len(df) : \A j \in (i + 1)..Len(df) : df[j].pos_beg # df[i].pos_beg }
        RECURSIVE pick(_)
        pick(i) == IF i > Len(df) THEN <<>>
                   ELSE IF i \in idx THEN <<df[i]>> \o pick(i + 1)
                   ELSE pick(i + 1)
    IN pick(1)

\* drop_duplicates(subset=["pos_beg"]): the first row of each pos_beg stays.
DropDuplicates(df) ==
    LET keep(i) == \A j \in 1..(i - 1) : df[j].pos_beg # df[i].pos_beg
        idx == { i \in 1..Len(df) : keep(i) }
        RECURSIVE pick(_)
        pick(i) == IF i > Len(df) THEN <<>>
                   ELSE IF i \in idx THEN <<df[i]>> \o pick(i + 1)
                   ELSE pick(i + 1)
    IN pick(1)

\* Mutant of Palindromes: the flag is ignored.
PalindromesAlways(df, keep) == DropDuplicates(SortValues(df))

\* Lines 62-65: the table the strands are taken from.
Palindromes(df, keep) == IF keep THEN df ELSE DropDuplicates(SortValues(df))

\* Mutant of BreakPoints: >= in place of >.
BreakPointsGeq(t, thr) == { i \in 2..Len(t) : t[i].pos_beg - t[i - 1].pos_beg >= thr }

\* Mutant of BreakPoints: the distance is taken as an absolute value.
BreakPointsAbs(t, thr) ==
    { i \in 2..Len(t) : t[i].pos_beg - t[i - 1].pos_beg > thr
                         \/ t[i - 1].pos_beg - t[i].pos_beg > thr }

\* t[t.pos_beg.diff() > dist_threshold]: the rows that open a new sub-table
\* (the first row's diff is NaN and never compares greater).
BreakPoints(t, thr) == { i \in 2..Len(t) : t[i].pos_beg - t[i - 1].pos_beg > thr }

\* (t.pos_beg.diff() > dist_threshold).any()
AnyGap(t, thr) == BreakPoints(t, thr) # {}

\* Mutant of NpSplit: t is cut behind every row of bkp.
NpSplitBehind(t, bkp) ==
    LET stop(s) == IF \E b \in bkp : b >= s
               THEN CHOOSE b \in bkp : b >= s /\ \A c \in bkp : c >= s => b <= c
               ELSE Len(t)
        RECURSIVE from(_)
        from(s) == <<SubSeq(t, s, stop(s))>> \o
                   (IF stop(s) = Len(t) THEN <<>> ELSE from(stop(s) + 1))
    IN from(1)

\* np.split(t.values, positions): cut t in front of every row of bkp.
NpSplit(t, bkp) ==
    LET stop(s) == IF \E b \in bkp : b > s
               THEN (CHOOSE b \in bkp : b > s /\ \A c \in bkp : c > s => b <= c) - 1
               ELSE Len(t)
        RECURSIVE from(_)
        from(s) == <<SubSeq(t, s, stop(s))>> \o
                   (IF stop(s) = Len(t) THEN <<>> ELSE from(stop(s) + 1))
    IN from(1)

\* Mutant of WrapMerge: the last sub-table is appended behind the first.
WrapMergeBehind(arr, thr, size) ==
    LET first_pos_beg == arr[1][1].pos_beg
        last_pos_beg == arr[Len(arr)][Len(arr[Len(arr)])].pos_beg
    IN IF Len(arr) > 1 /\ (first_pos_beg - last_pos_beg) % size < thr
       THEN <<arr[1] \o arr[Len(arr)]>> \o SubSeq(arr, 2, Len(arr) - 1)
       ELSE arr

\* Mutant of WrapMerge: the last sub-table is not deleted after the merge.
WrapMergeKeepsLast(arr, thr, size) ==
    LET first_pos_beg == arr[1][1].pos_beg
        last_pos_beg == arr[Len(arr)][Len(arr[Len(arr)])].pos_beg
    IN IF Len(arr) > 1 /\ (first_pos_beg - last_pos_beg) % size < thr
       THEN <<arr[Len(arr)] \o arr[1]>> \o SubSeq(arr, 2, Len(arr))
       ELSE arr

\* Mutant of WrapMerge: the circular gap is not looked at.
WrapMergeAlways(arr, thr, size) ==
    IF Len(arr) > 1
    THEN <<arr[Len(arr)] \o arr[1]>> \o SubSeq(arr, 2, Len(arr) - 1)
    ELSE arr

\* Lines 90-94 (and 101-105): the wraparound merge of one strand's sub-tables.
WrapMerge(arr, thr, size) ==
    LET first_pos_beg == arr[1][1].pos_beg
        last_pos_beg == arr[Len(arr)][Len(arr[Len(arr)])].pos_beg
    IN IF Len(arr) > 1 /\ (first_pos_beg - last_pos_beg) % size < thr
       THEN <<arr[Len(arr)] \o arr[1]>> \o SubSeq(arr, 2, Len(arr) - 1)
       ELSE arr

\* Mutant of OkFlag: lines 76-77 are missing.
OkFlagGapsOnly(plus, minus, thr) == AnyGap(plus, thr) \/ AnyGap(minus, thr)

\* Lines 68-77: whether the strands are split at all.
OkFlag(plus, minus, thr) ==
    \/ AnyGap(plus, thr) \/ AnyGap(minus, thr)
    \/ plus # <<>> /\ minus # <<>>

\* Lines 69-74: the split points of one strand, computed only when some
\* strand has a gap.
PositionBkp(t, anygap, thr) == IF anygap /\ t # <<>> THEN BreakPoints(t, thr) ELSE {}

\* search_attc: its locals and its result (attc_array). split_plus and
\* split_minus are the strands' sub-tables as np.split returns them, before
\* the wraparound merge; array_plus and array_minus after it. They are
\* computed on the ok path only.
SearchAttc(df0, keep, thr, size) ==
    LET df == Palindromes(df0, keep)
        plus == IF keep THEN StrandRows(df0, "+") ELSE StrandRows(df, "+")
        minus == IF keep THEN StrandRows(df0, "-") ELSE StrandRows(df, "-")
        anygap == AnyGap(plus, thr) \/ AnyGap(minus, thr)
        ok == OkFlag(plus, minus, thr)
        split_plus == IF ok /\ plus # <<>>
                      THEN NpSplit(plus, PositionBkp(plus, anygap, thr)) ELSE <<>>
        split_minus == IF ok /\ minus # <<>>
                       THEN NpSplit(minus, PositionBkp(minus, anygap, thr)) ELSE <<>>
        array_plus == IF split_plus = <<>> THEN <<>> ELSE WrapMerge(split_plus, thr, size)
        array_minus == IF split_minus = <<>> THEN <<>> ELSE WrapMerge(split_minus, thr, size)
    IN [ attc_df |-> df,
         attc_plus |-> plus,
         attc_minus |-> minus,
         ok |-> ok,
         split_plus |-> split_plus,
         split_minus |-> split_minus,
         array_plus |-> array_plus,
         array_minus |-> array_minus,
         attc_array |-> IF ~ok
                        THEN (IF df = <<>> THEN <<>> ELSE <<df>>)
                        ELSE array_plus \o array_minus ]

NoRun == [ attc_df |-> <<>>, attc_plus |-> <<>>, attc_minus |-> <<>>, ok |-> FALSE,
           split_plus |-> <<>>, split_minus |-> <<>>,
           array_plus |-> <<>>, array_minus |-> <<>>, attc_array |-> <<>> ]

\* -------------------------------------------- search_attc: specification
\* No find_attc_max run.
MaxIdle ==
    /\ mpc = "idle"
    /\ size_replicon = 1
    /\ distance_threshold = 0
    /\ circular = FALSE
    /\ n_done = 0
    /\ full_element = NoElement
    /\ max_final = <<>>
    /\ index = <<>>
    /\ max_elt = <<>>
    /\ df_max = <<>>
    /\ strand = "unbound"
    /\ window_beg = Unset
    /\ window_end = Unset
    /\ go = <<FALSE, FALSE>>
    /\ error = "none"
    /\ calls = <<0, 0>>

\* returncode before call() has returned: a value outside the return codes.
NoReturnCode == MaxReturnCode + 1

NoException == [type |-> "none", message |-> ""]

\* No find_attc run.
FindIdle ==
    /\ fpc = "idle"
    /\ replicon_id = ""
    /\ cmsearch_path = ""
    /\ out_dir = ""
    /\ cpu = 1
    /\ cmsearch_cmd = <<>>
    /\ returncode = NoReturnCode
    /\ n_call = 0
    /\ exc = NoException

\* No merge_results or filter_calin run.
ResultsIdle ==
    /\ rpc = "idle"
    /\ results_file = <<>>
    /\ threshold = 2
    /\ agg_results = <<>>
    /\ filtered = <<>>

Init ==
    /\ pc = "input"
    /\ replicon_size \in 1..MaxPos
    /\ attc_df \in { t \in HitTables : \A i \in 1..Len(t) : t[i].pos_beg <= replicon_size }
    /\ keep_palindromes \in BOOLEAN
    /\ dist_threshold \in 0..(MaxPos - 1)
    /\ run = NoRun
    /\ rerun = NoRun
    /\ MaxIdle
    /\ FindIdle
    /\ ResultsIdle

\* The caller clusters the replicon's hit table.
Cluster ==
    /\ pc = "input"
    /\ run' = SearchAttc(attc_df, keep_palindromes, dist_threshold, replicon_size)
    /\ pc' = "clustered"
    /\ UNCHANGED <<attc_df, keep_palindromes, dist_threshold, replicon_size, rerun, beside_search>>

\* search_attc is run again on the single cluster it returned.
Recluster ==
    /\ pc = "clustered"
    /\ Len(run.attc_array) = 1
    /\ rerun' = SearchAttc(run.attc_array[1], keep_palindromes, dist_threshold, replicon_size)
    /\ pc' = "reclustered"
    /\ UNCHANGED <<attc_df, keep_palindromes, dist_threshold, replicon_size, run, beside_search>>

Next == Cluster \/ Recluster

Spec == Init /\ [][Next]_vars

\* --------------------------------------------------------- find_attc_max
Min(a, b) == IF a <= b THEN a ELSE b

Max(a, b) == IF a >= b THEN a ELSE b

\* 1-based coordinates on the replicon.
Positions == 1..MaxSize

\* A feature of an integron (an attC site or the integrase): its pos_beg and
\* pos_end, one or two base pairs long.
Features ==
    { [pos_beg |-> x[1], pos_end |-> x[2]] :
        x \in { y \in Positions \X Positions : y[1] <= y[2] /\ y[2] <= y[1] + 1 } }

Disjoint(f, g) == f.pos_end < g.pos_beg \/ g.pos_end < f.pos_beg

\* The attC rows of a description, in the order of the table: one site, or two
\* sites that do not overlap (the second may lie across the origin, before
\* the first).
AttcLists ==
    { <<f>> : f \in Features }
    \cup { <<x[1], x[2]>> : x \in { y \in Features \X Features : Disjoint(y[1], y[2]) } }

\* i.describe(): the integron's type, its intI rows, its attC rows, the
\* strand of its attC rows and the model of its integrase.
CompleteElements ==
    { [type |-> "complete", intI |-> <<x[1]>>, attC |-> x[2], strand |-> x[3],
       model |-> "intersection_tyr_intI"] :
        x \in { y \in Features \X AttcLists \X {1, -1} :
                  \A n \in 1..Len(y[2]) : Disjoint(y[1], y[2][n]) } }

CalinElements ==
    { [type |-> "CALIN", intI |-> <<>>, attC |-> x[1], strand |-> x[2], model |-> "attc_4"] :
        x \in AttcLists \X {1, -1} }

In0Elements ==
    { [type |-> "In0", intI |-> <<x[1]>>, attC |-> <<>>, strand |-> 1, model |-> x[2]] :
        x \in Features \X {"intersection_tyr_intI", "Phage_integrase"} }

Elements == CompleteElements \cup CalinElements \cup In0Elements

\* A row of a hit table of local_max and expand: pos_beg, pos_end and evalue;
\* the other columns (Accession_number, cm_attC, cm_debut, cm_fin, sens) are
\* taken to be the same in every row.
HitStarts == {2, 4}

MaxHitRows ==
    { [pos_beg |-> x[1], pos_end |-> x[1] + 1, evalue |-> x[2]] : x \in HitStarts \X Evalues }

\* What local_max may return: no hit, one hit, or two hits of different
\* places in either order.
LocalMaxTables ==
    {<<>>} \cup { <<r>> : r \in MaxHitRows }
    \cup { <<x[1], x[2]>> : x \in { y \in MaxHitRows \X MaxHitRows : y[1].pos_beg # y[2].pos_beg } }

\* What expand may return: the hits it was given and the hits it newly found.
ExpandTables(elt) == { elt } \cup { elt \o <<r>> : r \in MaxHitRows }

\* full_element[full_element.type_elt == "attC"].pos_beg.values[0]
AttcPosBegFirst(fe) == fe.attC[1].pos_beg

\* full_element[full_element.type_elt == "attC"].pos_end.values[-1]
AttcPosEndLast(fe) == fe.attC[Len(fe.attC)].pos_end

\* full_element[full_element.annotation == "intI"].pos_beg.values[0]
IntIPosBegFirst(fe) == fe.intI[1].pos_beg

\* full_element[full_element.annotation == "intI"].pos_end.values[0]
IntIPosEndFirst(fe) == fe.intI[1].pos_end

\* full_element[full_element.annotation == "intI"].pos_end.values[-1]
IntIPosEndLast(fe) == fe.intI[Len(fe.intI)].pos_end

\* Lines 200-203.
IntegraseIsLeft(fe, size) ==
    (AttcPosBegFirst(fe) - IntIPosEndFirst(fe)) % size
        < (IntIPosBegFirst(fe) - AttcPosEndLast(fe)) % size

\* Mutant of Wrap: a linear replicon's window is not clamped.
WrapUnclamped(beg, left, end, right, circ, size) ==
    IF circ
    THEN << (beg - left) % size, (end + right) % size >>
    ELSE << beg - left, end + right >>

\* Lines 217-222 (250-255, 279-284): the window, wrapped or clamped.
Wrap(beg, left, end, right, circ, size) ==
    IF circ
    THEN << (beg - left) % size, (end + right) % size >>
    ELSE << Max(0, beg - left), Min(size, end + right) >>

\* Mutant of CompleteWindow: the window is extended on both sides.
CompleteWindowBothSides(fe, thr, circ, size) ==
    IF IntegraseIsLeft(fe, size)
    THEN Wrap(IntIPosEndFirst(fe), thr, AttcPosEndLast(fe), thr, circ, size)
    ELSE Wrap(AttcPosBegFirst(fe), thr, IntIPosEndLast(fe), thr, circ, size)

\* Lines 205-222: the window of a complete integron.
CompleteWindow(fe, thr, circ, size) ==
    IF IntegraseIsLeft(fe, size)
    THEN Wrap(IntIPosEndFirst(fe), 0, AttcPosEndLast(fe), thr, circ, size)
    ELSE Wrap(AttcPosBegFirst(fe), thr, IntIPosEndLast(fe), 0, circ, size)

\* Lines 248-255: the window of a CALIN.
CalinWindow(fe, thr, circ, size) ==
    Wrap(AttcPosBegFirst(fe), thr, AttcPosEndLast(fe), thr, circ, size)

\* Lines 277-284: the window of an In0.
In0Window(fe, thr, circ, size) ==
    Wrap(IntIPosBegFirst(fe), thr, IntIPosEndLast(fe), thr, circ, size)

\* Lines 224 and 256.
StrandOf(fe) == IF fe.strand = 1 THEN "top" ELSE "bottom"

\* The pos_beg column of a description.
ElementPosBegs(fe) ==
    { fe.intI[n].pos_beg : n \in 1..Len(fe.intI) } \cup { fe.attC[n].pos_beg : n \in 1..Len(fe.attC) }

\* Mutant of Covered: only the first attC site is looked up.
CoveredFirstOnly(fe, final) == \E n \in 1..Len(final) : final[n].pos_beg = AttcPosBegFirst(fe)

\* Line 246: not full_element[full_element.pos_beg.isin(max_final.pos_beg)].empty
Covered(fe, final) == \E n \in 1..Len(final) : final[n].pos_beg \in ElementPosBegs(fe)

\* Mutant of GoLeft: the last hit of df_max is taken.
GoLeftLastHit(fe, df, thr, size) == (AttcPosBegFirst(fe) - df[Len(df)].pos_end) % size < thr

\* Lines 234-237 and 264-267: the two directions given to expand.
GoLeft(fe, df, thr, size) == (AttcPosBegFirst(fe) - df[1].pos_end) % size < thr

GoRight(fe, df, thr, size) == (df[Len(df)].pos_beg - AttcPosEndLast(fe)) % size < thr

\* Mutant of DropDuplicatesButEvalue: keep="last".
DropDuplicatesButEvalueLast(t) ==
    LET same(a, b) == a.pos_beg = b.pos_beg /\ a.pos_end = b.pos_end
        RECURSIVE pick(_)
        pick(n) == IF n > Len(t) THEN <<>>
                   ELSE IF \E m \in (n + 1)..Len(t) : same(t[m], t[n]) THEN pick(n + 1)
                   ELSE <<t[n]>> \o pick(n + 1)
    IN pick(1)

\* Mutant of DropDuplicatesButEvalue: the rows are compared on every column.
DropDuplicatesAllColumns(t) ==
    LET same(a, b) == a = b
        RECURSIVE pick(_)
        pick(n) == IF n > Len(t) THEN <<>>
                   ELSE IF \E m \in 1..(n - 1) : same(t[m], t[n]) THEN pick(n + 1)
                   ELSE <<t[n]>> \o pick(n + 1)
    IN pick(1)

\* drop_duplicates(subset=max_final.columns[:-1]): of the rows that agree on
\* every column but evalue the first stays.
DropDuplicatesButEvalue(t) ==
    LET same(a, b) == a.pos_beg = b.pos_beg /\ a.pos_end = b.pos_end
        RECURSIVE pick(_)
        pick(n) == IF n > Len(t) THEN <<>>
                   ELSE IF \E m \in 1..(n - 1) : same(t[m], t[n]) THEN pick(n + 1)
                   ELSE <<t[n]>> \o pick(n + 1)
    IN pick(1)

\* Lines 299-300.
MergeFinal(final, elt) == DropDuplicatesButEvalue(final \o elt)

\* Line 301: list(range(len(max_final))).
RangeIndex(n) == [k \in 1..n |-> k - 1]

\* --------------------------------------- find_attc_max: specification
\* No search_attc run.
SearchIdle ==
    /\ pc = "idle"
    /\ attc_df = <<>>
    /\ keep_palindromes = FALSE
    /\ dist_threshold = 0
    /\ replicon_size = 1
    /\ run = NoRun
    /\ rerun = NoRun

\* Lines 186-192.
InitMax ==
    /\ SearchIdle
    /\ FindIdle
    /\ ResultsIdle
    /\ mpc = "loop"
    /\ size_replicon = MaxSize
    /\ distance_threshold \in 1..MaxThreshold
    /\ circular \in BOOLEAN
    /\ n_done = 0
    /\ full_element = NoElement
    /\ max_final = <<>>
    /\ index = <<>>
    /\ max_elt = <<>>
    /\ df_max = <<>>
    /\ strand = "unbound"
    /\ window_beg = Unset
    /\ window_end = Unset
    /\ go = <<FALSE, FALSE>>
    /\ error = "none"
    /\ calls = <<0, 0>>

Params == <<size_replicon, distance_threshold, circular>>

\* Mutant of EndOfTurn: the hits of the integron are not merged.
EndOfTurnNoMerge(elt) ==
    /\ max_final' = max_final
    /\ index' = index
    /\ n_done' = n_done + 1
    /\ mpc' = "loop"
    /\ full_element' = NoElement
    /\ max_elt' = <<>>
    /\ df_max' = <<>>
    /\ window_beg' = Unset
    /\ window_end' = Unset
    /\ go' = <<FALSE, FALSE>>
    /\ calls' = <<0, 0>>
    /\ UNCHANGED <<error, beside_max, Params>>

\* Lines 299-301 and the next turn of the loop. The locals that the next
\* turn assigns before it reads them are cleared; strand is not one of them.
EndOfTurn(elt) ==
    /\ max_final' = MergeFinal(max_final, elt)
    /\ index' = RangeIndex(Len(MergeFinal(max_final, elt)))
    /\ n_done' = n_done + 1
    /\ mpc' = "loop"
    /\ full_element' = NoElement
    /\ max_elt' = <<>>
    /\ df_max' = <<>>
    /\ window_beg' = Unset
    /\ window_end' = Unset
    /\ go' = <<FALSE, FALSE>>
    /\ calls' = <<0, 0>>
    /\ UNCHANGED <<error, beside_max, Params>>

\* Mutant of Raise: the failure is caught and the running table is returned.
RaiseReturnsTable(e) ==
    /\ mpc' = "returned"
    /\ error' = e
    /\ full_element' = NoElement
    /\ max_elt' = <<>>
    /\ df_max' = <<>>
    /\ strand' = "unbound"
    /\ window_beg' = Unset
    /\ window_end' = Unset
    /\ go' = <<FALSE, FALSE>>
    /\ UNCHANGED <<beside_max, Params, n_done, calls, max_final, index>>

\* An exception leaves find_attc_max: its frame is gone, nothing is returned.
Raise(e) ==
    /\ mpc' = "raised"
    /\ error' = e
    /\ full_element' = NoElement
    /\ max_final' = <<>>
    /\ index' = <<>>
    /\ max_elt' = <<>>
    /\ df_max' = <<>>
    /\ strand' = "unbound"
    /\ window_beg' = Unset
    /\ window_end' = Unset
    /\ go' = <<FALSE, FALSE>>
    /\ UNCHANGED <<beside_max, Params, n_done, calls>>

\* local_max is called with window_beg, window_end and strand.
CallLocalMax(w) ==
    /\ window_beg' = w[1]
    /\ window_end' = w[2]
    /\ mpc' = "local_max"
    /\ calls' = <<calls[1] + 1, calls[2]>>
    /\ UNCHANGED <<beside_max, Params, n_done, full_element, max_final, index, max_elt, df_max, go, error>>

\* Lines 193-196: the next integron of the list is described.
Describe ==
    /\ mpc = "loop"
    /\ n_done < MaxIntegrons
    /\ \E fe \in Elements : full_element' = fe
    /\ max_elt' = <<>>
    /\ calls' = <<0, 0>>
    /\ mpc' = "describe"
    /\ UNCHANGED <<beside_max, Params, n_done, max_final, index, df_max, strand, window_beg, window_end,
                   go, error>>

\* Lines 198-227.
SearchComplete ==
    /\ mpc = "describe"
    /\ full_element.type = "complete"
    /\ strand' = StrandOf(full_element)
    /\ CallLocalMax(CompleteWindow(full_element, distance_threshold, circular, size_replicon))

\* Lines 245-260: a CALIN none of whose pos_beg is in max_final.
SearchCalin ==
    /\ mpc = "describe"
    /\ full_element.type = "CALIN"
    /\ ~Covered(full_element, max_final)
    /\ strand' = StrandOf(full_element)
    /\ CallLocalMax(CalinWindow(full_element, distance_threshold, circular, size_replicon))

\* Lines 245-246 and 299-301: a CALIN that max_final covers.
SkipCalin ==
    /\ mpc = "describe"
    /\ full_element.type = "CALIN"
    /\ Covered(full_element, max_final)
    /\ EndOfTurn(max_elt)
    /\ UNCHANGED strand

\* Lines 275-289, strand assigned by an earlier integron.
SearchIn0 ==
    /\ mpc = "describe"
    /\ full_element.type = "In0"
    /\ full_element.model # "Phage_integrase"
    /\ strand # "unbound"
    /\ UNCHANGED strand
    /\ CallLocalMax(In0Window(full_element, distance_threshold, circular, size_replicon))

\* Lines 275-288, strand never assigned: reading it raises.
In0StrandUnbound ==
    /\ mpc = "describe"
    /\ full_element.type = "In0"
    /\ full_element.model # "Phage_integrase"
    /\ strand = "unbound"
    /\ Raise("UnboundLocalError")

\* Lines 275-276 and 299-301: an In0 of a phage integrase.
SkipIn0 ==
    /\ mpc = "describe"
    /\ full_element.type = "In0"
    /\ full_element.model = "Phage_integrase"
    /\ EndOfTurn(max_elt)
    /\ UNCHANGED strand

\* Lines 228-243, 261-273, 290-297: local_max returned hits; expand is called.
LocalMaxHits ==
    /\ mpc = "local_max"
    /\ \E df \in LocalMaxTables :
        /\ df # <<>>
        /\ df_max' = df
        /\ max_elt' = max_elt \o df
        /\ go' = CASE full_element.type = "complete" ->
                        << GoLeft(full_element, df, distance_threshold, size_replicon)
                              /\ ~IntegraseIsLeft(full_element, size_replicon),
                           GoRight(full_element, df, distance_threshold, size_replicon)
                              /\ IntegraseIsLeft(full_element, size_replicon) >>
                   [] full_element.type = "CALIN" ->
                        << GoLeft(full_element, df, distance_threshold, size_replicon),
                           GoRight(full_element, df, distance_threshold, size_replicon) >>
                   [] OTHER -> <<TRUE, TRUE>>
    /\ mpc' = "expand"
    /\ calls' = <<calls[1], calls[2] + 1>>
    /\ UNCHANGED <<beside_max, Params, n_done, full_element, max_final, index, strand, window_beg,
                   window_end, error>>

\* Lines 228-234: local_max returned no hit for a complete integron;
\* df_max.pos_end.values[0] raises.
LocalMaxEmptyComplete ==
    /\ mpc = "local_max"
    /\ full_element.type = "complete"
    /\ Raise("IndexError")

\* Lines 261-263, 290-291 and 299-301: local_max returned no hit for a CALIN
\* or an In0; expand is not called.
LocalMaxEmpty ==
    /\ mpc = "local_max"
    /\ full_element.type \in {"CALIN", "In0"}
    /\ EndOfTurn(max_elt)
    /\ UNCHANGED strand

\* local_max failed.
LocalMaxFails ==
    /\ mpc = "local_max"
    /\ Raise("local_max")

\* Lines 238-243, 268-273, 292-297 and 299-301: expand returned.
ExpandReturns ==
    /\ mpc = "expand"
    /\ \E t \in ExpandTables(max_elt) : EndOfTurn(t)
    /\ UNCHANGED strand

\* expand failed.
ExpandFails ==
    /\ mpc = "expand"
    /\ Raise("expand")

\* Line 302: the list is exhausted.
Return ==
    /\ mpc = "loop"
    /\ mpc' = "returned"
    /\ UNCHANGED <<beside_max, Params, n_done, full_element, max_final, index, max_elt, df_max,
                   strand, window_beg, window_end, go, error, calls>>

NextMax ==
    \/ Describe
    \/ SearchComplete \/ SearchCalin \/ SkipCalin
    \/ SearchIn0 \/ In0StrandUnbound \/ SkipIn0
    \/ LocalMaxHits \/ LocalMaxEmptyComplete \/ LocalMaxEmpty \/ LocalMaxFails
    \/ ExpandReturns \/ ExpandFails
    \/ Return

SpecMax == InitMax /\ [][NextMax]_vars

\* ------------------------------------------------- claims on search_attc
Range(t) == { t[i] : i \in 1..Len(t) }

\* The rows of a list of clusters.
ClusterRows(arr) == UNION { Range(arr[k]) : k \in 1..Len(arr) }

PosBegs(t) == [i \in 1..Len(t) |-> t[i].pos_beg]

\* The successive pos_beg gaps of t that exceed thr.
GapsOver(t, thr) ==
    Cardinality({ i \in 1..(Len(t) - 1) : t[i + 1].pos_beg > t[i].pos_beg + thr })

OneStrand(t) == \E s \in Sens : \A i \in 1..Len(t) : t[i].sens = s

\* The input is not empty, on one strand and without a gap over dist_threshold.
C1_Pre ==
    /\ pc = "clustered"
    /\ attc_df # <<>>
    /\ OneStrand(attc_df)
    /\ GapsOver(attc_df, dist_threshold) = 0

\* Row i of the input loses against another row of the same pos_beg: one
\* with a lower evalue, or with the same evalue and an earlier place.
Beaten(i) ==
    \E j \in 1..Len(attc_df) :
        /\ j # i
        /\ attc_df[j].pos_beg = attc_df[i].pos_beg
        /\ \/ attc_df[j].evalue < attc_df[i].evalue
           \/ attc_df[j].evalue = attc_df[i].evalue /\ j < i

\* C1 as stated: a non-empty table on one strand, sorted by pos_beg, with no
\* gap over dist_threshold gives exactly one cluster holding all input rows,
\* whatever keep_palindromes is.
C1_Original ==
    C1_Pre => /\ Len(run.attc_array) = 1
              /\ ClusterRows(run.attc_array) = Range(attc_df)

\* C1 amended: such a table gives exactly one cluster; with keep_palindromes
\* it holds all input rows in their order, without it it holds one row of
\* each pos_beg (the rows not beaten by a row of the same pos_beg).
C1_OneCluster ==
    C1_Pre => /\ Len(run.attc_array) = 1
              /\ keep_palindromes => run.attc_array[1] = attc_df
              /\ ~keep_palindromes =>
                    Range(run.attc_array[1]) =
                        { attc_df[i] : i \in { j \in 1..Len(attc_df) : ~Beaten(j) } }

C1_Witness ==
    /\ C1_Pre
    /\ ~keep_palindromes
    /\ Len(attc_df) = 3
    /\ Len(run.attc_array) = 1
    /\ Len(run.attc_array[1]) = 2

\* The sub-tables before the wraparound merge.
PreMerge == IF run.ok THEN run.split_plus \o run.split_minus ELSE run.attc_array

CircularGapBelow(arr) ==
    LET last == arr[Len(arr)]
    IN (arr[1][1].pos_beg - last[Len(last)].pos_beg) % replicon_size < dist_threshold

\* What the claim says of one strand's sub-tables and its clusters.
C3_Strand(split, array) ==
    Len(split) >= 2 =>
        IF CircularGapBelow(split)
        THEN /\ Len(array) = Len(split) - 1
             /\ array[1] = split[Len(split)] \o split[1]
             /\ \A k \in 2..Len(array) : array[k] = split[k]
        ELSE array = split

\* C3: a strand split into two or more sub-tables whose circular gap
\* (first pos_beg of the first - last pos_beg of the last) mod replicon_size
\* is below dist_threshold loses its last sub-table, whose rows are put in
\* front of the first one's; otherwise the sub-tables are returned as split.
C3_WrapMerge ==
    pc = "clustered" =>
        /\ C3_Strand(run.split_plus, run.array_plus)
        /\ C3_Strand(run.split_minus, run.array_minus)
        /\ run.ok => run.attc_array = run.array_plus \o run.array_minus

\* The scaled scenario 100, 105, 6000 on a replicon of 6050: [6000, 100, 105].
C3_Witness ==
    /\ pc = "clustered"
    /\ PosBegs(attc_df) = <<1, 2, 5>>
    /\ OneStrand(attc_df)
    /\ dist_threshold = 2
    /\ replicon_size = 5
    /\ Len(run.attc_array) = 1
    /\ PosBegs(run.attc_array[1]) = <<5, 1, 2>>

\* The call returned one cluster, made by a wraparound merge.
MergedSingle ==
    /\ Len(run.attc_array) = 1
    /\ \/ run.array_plus # run.split_plus
       \/ run.array_minus # run.split_minus

\* C4: search_attc run again on its single wraparound-merged cluster, with
\* the same arguments, returns that one cluster, rows and order unchanged.
C4_Idempotent ==
    (pc = "reclustered" /\ MergedSingle) => rerun.attc_array = run.attc_array

C4_Witness ==
    /\ pc = "reclustered"
    /\ MergedSingle
    /\ Len(run.attc_array[1]) = 3
    /\ rerun.attc_array = run.attc_array

\* The input rows of pos_beg p.
RowsAt(p) == { i \in 1..Len(attc_df) : attc_df[i].pos_beg = p }

\* pos_beg p is hit on both strands.
Palindrome(p) ==
    \E i, j \in RowsAt(p) : attc_df[i].sens = "+" /\ attc_df[j].sens = "-"

\* How often row r is in the returned clusters.
Occurrences(r) ==
    Cardinality({ <<k, n>> \in (1..Len(run.attc_array)) \X (1..MaxRows) :
                    n <= Len(run.attc_array[k]) /\ run.attc_array[k][n] = r })

\* C5: without keep_palindromes, of the rows that share a pos_beg hit on
\* both strands exactly one is returned: the one of lowest evalue, the
\* earliest of the input when evalues are equal. With keep_palindromes every
\* one of them is returned.
C5_Palindromes ==
    pc = "clustered" =>
        \A p \in 1..MaxPos :
            Palindrome(p) =>
                \A i \in RowsAt(p) :
                    Occurrences(attc_df[i]) =
                        IF keep_palindromes \/ ~Beaten(i) THEN 1 ELSE 0

\* Two rows of one pos_beg on opposite strands with equal evalues: the first
\* of the input is the one returned.
C5_Witness ==
    /\ pc = "clustered"
    /\ ~keep_palindromes
    /\ Len(attc_df) = 2
    /\ attc_df[1].pos_beg = attc_df[2].pos_beg
    /\ attc_df[1].sens = "-" /\ attc_df[2].sens = "+"
    /\ attc_df[1].evalue = attc_df[2].evalue
    /\ run.attc_array = << <<attc_df[1]>> >>

\* The merge of one strand is decided by that strand's sub-tables alone.
C6_Strand(split, array) ==
    /\ array # split => Len(split) >= 2 /\ CircularGapBelow(split)
    /\ (split # <<>> /\ ~CircularGapBelow(split)) => array = split

\* C6: every returned cluster is of one strand; a strand split into one
\* sub-table is never merged; and each strand's merge is decided on its own
\* sub-tables, so a merge on one strand leaves the other strand's clusters
\* as they were split.
C6_Strands ==
    pc = "clustered" =>
        /\ \A k \in 1..Len(run.attc_array) : OneStrand(run.attc_array[k])
        /\ Len(run.split_plus) = 1 => run.array_plus = run.split_plus
        /\ Len(run.split_minus) = 1 => run.array_minus = run.split_minus
        /\ C6_Strand(run.split_plus, run.array_plus)
        /\ C6_Strand(run.split_minus, run.array_minus)
        /\ ClusterRows(run.array_plus) \subseteq Range(run.attc_plus)
        /\ ClusterRows(run.array_minus) \subseteq Range(run.attc_minus)

\* The plus strand is merged and the minus strand's cluster is as it was split.
C6_Witness ==
    /\ pc = "clustered"
    /\ run.array_plus # run.split_plus
    /\ Len(run.split_minus) = 1
    /\ run.array_minus = run.split_minus
    /\ run.attc_array = run.array_plus \o run.split_minus

\* ----------------------------------------------- claims on find_attc_max
\* x wrapped on a circular replicon, clamped to [0, size_replicon] on a linear one.
WrappedOrClamped(x) ==
    IF circular THEN x % size_replicon ELSE Max(0, Min(size_replicon, x))

\* local_max is being called for a complete integron.
C7_Pre == mpc = "local_max" /\ full_element.type = "complete"

\* C7 as stated: the integrase left, the window begins exactly at the
\* integrase pos_end and ends at the last attC pos_end + distance_threshold;
\* the integrase right, it begins at the first attC pos_beg -
\* distance_threshold and ends exactly at the integrase pos_end; the extended
\* bound is wrapped (circular) or clamped (linear).
C7_Original ==
    C7_Pre =>
        IF IntegraseIsLeft(full_element, size_replicon)
        THEN /\ window_beg = full_element.intI[1].pos_end
             /\ window_end = WrappedOrClamped(
                    full_element.attC[Len(full_element.attC)].pos_end + distance_threshold)
        ELSE /\ window_beg = WrappedOrClamped(full_element.attC[1].pos_beg - distance_threshold)
             /\ window_end = full_element.intI[1].pos_end

\* C7 amended: as stated, but on a circular replicon the bound that is not
\* extended is taken modulo the replicon size too: it is the integrase
\* pos_end unless that is the replicon size, where it is 0.
C7_CompleteWindow ==
    C7_Pre =>
        IF IntegraseIsLeft(full_element, size_replicon)
        THEN /\ window_beg = WrappedOrClamped(full_element.intI[1].pos_end)
             /\ window_beg = IF circular /\ full_element.intI[1].pos_end = size_replicon
                             THEN 0 ELSE full_element.intI[1].pos_end
             /\ window_end = WrappedOrClamped(
                    full_element.attC[Len(full_element.attC)].pos_end + distance_threshold)
        ELSE /\ window_beg = WrappedOrClamped(full_element.attC[1].pos_beg - distance_threshold)
             /\ window_end = WrappedOrClamped(full_element.intI[1].pos_end)
             /\ window_end = IF circular /\ full_element.intI[1].pos_end = size_replicon
                             THEN 0 ELSE full_element.intI[1].pos_end

\* The scaled scenario intI ending at 500, attC [600, 650], distance_threshold
\* 200: intI ending at 1, attC [2, 3], distance_threshold 1, window [1, 4].
C7_Witness ==
    /\ C7_Pre
    /\ full_element.intI[1].pos_end = 1
    /\ full_element.attC = << [pos_beg |-> 2, pos_end |-> 3] >>
    /\ distance_threshold = 1
    /\ IntegraseIsLeft(full_element, size_replicon)
    /\ window_beg = 1
    /\ window_end = 4

\* local_max or expand is being called on a linear replicon.
C8_Pre == mpc \in {"local_max", "expand"} /\ ~circular

\* C8 as stated: on a linear replicon window_beg and window_end lie in
\* [0, size_replicon).
C8_Original ==
    C8_Pre => /\ 0 <= window_beg /\ window_beg < size_replicon
              /\ 0 <= window_end /\ window_end < size_replicon

\* C8 amended: on a linear replicon window_beg and window_end lie in the
\* closed range [0, size_replicon].
C8_LinearWindow ==
    C8_Pre => /\ 0 <= window_beg /\ window_beg <= size_replicon
              /\ 0 <= window_end /\ window_end <= size_replicon

\* A window clamped at both ends of a linear replicon is given to expand.
C8_Witness ==
    /\ C8_Pre
    /\ mpc = "expand"
    /\ window_beg = 0
    /\ window_end = size_replicon

\* None of the description's pos_beg values is a pos_beg of the running table.
C9_NotCovered ==
    \A n \in 1..Len(full_element.attC) : \A m \in 1..Len(max_final) :
        full_element.attC[n].pos_beg # max_final[m].pos_beg

\* C9: a CALIN is searched, local_max being called with the window
\* [first attC pos_beg - distance_threshold, last attC pos_end +
\* distance_threshold] wrapped or clamped, if and only if none of its pos_beg
\* values is a pos_beg of the running table; skipped, no collaborator is
\* called and the running table stays as it is.
C9_CalinSearch ==
    [][ (mpc = "describe" /\ full_element.type = "CALIN") =>
            IF C9_NotCovered
            THEN /\ mpc' = "local_max"
                 /\ window_beg' = WrappedOrClamped(
                        full_element.attC[1].pos_beg - distance_threshold)
                 /\ window_end' = WrappedOrClamped(
                        full_element.attC[Len(full_element.attC)].pos_end + distance_threshold)
                 /\ max_final' = max_final
            ELSE /\ mpc' = "loop"
                 /\ n_done' = n_done + 1
                 /\ max_final' = max_final ]_vars

\* A CALIN of two attC sites is searched while the running table has hits.
C9_Witness ==
    /\ mpc = "local_max"
    /\ full_element.type = "CALIN"
    /\ Len(full_element.attC) = 2
    /\ max_final # <<>>
    /\ C9_NotCovered

\* C10: for an In0 whose model is not Phage_integrase local_max is called
\* with the window [intI pos_beg - distance_threshold, intI pos_end +
\* distance_threshold] wrapped or clamped, and expand is then called with
\* search_left and search_right both true; an In0 of a Phage_integrase
\* starts no search and adds no row.
C10_In0Search ==
    [][ /\ (mpc = "describe" /\ full_element.type = "In0"
                /\ full_element.model # "Phage_integrase") =>
              /\ mpc' = "local_max"
              /\ window_beg' = WrappedOrClamped(full_element.intI[1].pos_beg - distance_threshold)
              /\ window_end' = WrappedOrClamped(full_element.intI[1].pos_end + distance_threshold)
        /\ (mpc = "local_max" /\ full_element.type = "In0" /\ mpc' = "expand") =>
              go' = <<TRUE, TRUE>>
        /\ (mpc = "describe" /\ full_element.type = "In0"
                /\ full_element.model = "Phage_integrase") =>
              /\ mpc' = "loop"
              /\ max_final' = max_final ]_vars

\* Two rows agree on every column but evalue.
SameButEvalue(a, b) == a.pos_beg = b.pos_beg /\ a.pos_end = b.pos_end

\* C11: at every point of a run that has not raised, so after each integron
\* and in the returned table, no two rows of max_final agree on every column
\* but evalue, and the index of max_final is 0, 1, ..., n-1.
C11_ResultInvariant ==
    mpc \in {"loop", "describe", "local_max", "expand", "returned"} =>
        /\ \A a \in 1..Len(max_final) : \A b \in 1..Len(max_final) :
                a # b => ~SameButEvalue(max_final[a], max_final[b])
        /\ DOMAIN index = 1..Len(max_final)
        /\ \A a \in 1..Len(max_final) : index[a] = a - 1

\* Two integrons are done, the table returned has two rows, the first of them
\* a hit of the worse evalue.
C11_Witness ==
    /\ mpc = "returned"
    /\ n_done = 2
    /\ Len(max_final) = 2
    /\ max_final[1].evalue = 2

\* local_max returns without a hit: the step that leaves the call neither
\* calls expand nor carries a failure of local_max.
C12_EmptyReturn == mpc = "local_max" /\ mpc' # "expand" /\ error' # "local_max"

\* C12: when local_max returns an empty table, whatever the type of the
\* integron, find_attc_max does not raise and goes on to the next integron
\* with max_final as it was; a run over an empty list returns an empty table.
C12_ToleratesEmpty ==
    [][ /\ C12_EmptyReturn =>
            /\ mpc' = "loop"
            /\ error' = "none"
            /\ max_final' = max_final
        /\ (mpc = "loop" /\ mpc' = "returned" /\ n_done = 0) => max_final' = <<>> ]_vars

Collaborators == {"local_max", "expand"}

\* C13: a failure of local_max or expand leaves find_attc_max as that
\* failure, in the step in which it occurs: no call is added, the integron is
\* not counted as done and no table is left to the caller; a run that raised
\* takes no further step (no retry, no call for a later integron), and a run
\* that returned has not failed.
C13_FailurePropagates ==
    [][ /\ mpc # "raised"
        /\ error' \in Collaborators =>
              /\ mpc \in Collaborators
              /\ error' = mpc
              /\ mpc' = "raised"
              /\ calls' = calls
              /\ n_done' = n_done
              /\ max_final' = <<>>
        /\ mpc' = "returned" => error' = "none" ]_vars

\* expand failed on the second integron, after the first one was merged.
C13_Witness ==
    /\ mpc = "raised"
    /\ error = "expand"
    /\ n_done = 1
    /\ calls = <<1, 1>>

\* ------------------------------------------------------------- find_attc
Digits == <<"0", "1", "2", "3", "4", "5", "6", "7", "8", "9">>

\* str(n) of a natural number.
RECURSIVE Str(_)
Str(n) == IF n < 10 THEN Digits[n + 1] ELSE Str(n \div 10) \o Digits[(n % 10) + 1]

\* str(n) of an integer.
StrInt(n) == IF n < 0 THEN "-" \o Str(0 - n) ELSE Str(n)

\* os.path.join(a, b) of a directory without trailing separator and a file name.
PathJoin(a, b) == a \o "/" \o b

\* ' '.join(words)
RECURSIVE JoinWords(_)
JoinWords(words) ==
    IF words = <<>> THEN ""
    ELSE IF Len(words) = 1 THEN words[1]
    ELSE words[1] \o " " \o JoinWords(Tail(words))

\* The arguments that are the same in every run.
ModelAttc == "attc_4.cm"

RepliconPath == "replicon.fst"

\* Lines 132-138.
CmsearchCmd(path, ncpu, dir, id) ==
    << path,
       "--cpu", Str(ncpu),
       "-o", PathJoin(dir, id \o "_attc.res"),
       "--tblout", PathJoin(dir, id \o "_attc_table.res"),
       "-E", "10",
       ModelAttc,
       RepliconPath >>

\* What call() returns when the process ran: its exit status, negative when
\* a signal ended it.
ReturnCodes == (0 - 1)..MaxReturnCode

\* The errors of call() when the process cannot be launched.
LaunchErrors == {"No such file or directory", "Permission denied"}

\* Line 143.
LaunchFailure(cmd, err) ==
    [type |-> "RuntimeError", message |-> JoinWords(cmd) \o " failed : " \o err]

\* Line 145.
ReturnCodeFailure(cmd, rc) ==
    [type |-> "RuntimeError", message |-> JoinWords(cmd) \o " failed returncode = " \o StrInt(rc)]

\* Mutant of Failed: only a positive return code is a failure.
FailedPositive(rc) == rc > 0

\* Line 144.
Failed(rc) == rc # 0

InitFind ==
    /\ SearchIdle
    /\ MaxIdle
    /\ ResultsIdle
    /\ fpc = "start"
    /\ replicon_id \in {"r1", "r2"}
    /\ cmsearch_path \in {"cmsearch", "/usr/bin/cmsearch"}
    /\ out_dir \in {"out", "tmp/out"}
    /\ cpu \in 1..MaxCpu
    /\ cmsearch_cmd = <<>>
    /\ returncode = NoReturnCode
    /\ n_call = 0
    /\ exc = NoException

FindArgs == <<replicon_id, cmsearch_path, out_dir, cpu>>

\* Lines 132-138.
BuildCommand ==
    /\ fpc = "start"
    /\ cmsearch_cmd' = CmsearchCmd(cmsearch_path, cpu, out_dir, replicon_id)
    /\ fpc' = "built"
    /\ UNCHANGED <<beside_find, FindArgs, returncode, n_call, exc>>

\* Line 141: the process ran and ended with a return code.
CallReturns ==
    /\ fpc = "built"
    /\ \E rc \in ReturnCodes : returncode' = rc
    /\ n_call' = n_call + 1
    /\ fpc' = "called"
    /\ UNCHANGED <<beside_find, FindArgs, cmsearch_cmd, exc>>

\* Lines 141-143: the process could not be launched.
CallRaises ==
    /\ fpc = "built"
    /\ \E err \in LaunchErrors : exc' = LaunchFailure(cmsearch_cmd, err)
    /\ n_call' = n_call + 1
    /\ fpc' = "raised"
    /\ UNCHANGED <<beside_find, FindArgs, cmsearch_cmd, returncode>>

\* Lines 144-145.
RaiseReturnCode ==
    /\ fpc = "called"
    /\ Failed(returncode)
    /\ exc' = ReturnCodeFailure(cmsearch_cmd, returncode)
    /\ fpc' = "raised"
    /\ UNCHANGED <<beside_find, FindArgs, cmsearch_cmd, returncode, n_call>>

\* Line 144 not taken: the function ends and returns None.
ReturnNone ==
    /\ fpc = "called"
    /\ ~Failed(returncode)
    /\ fpc' = "returned"
    /\ UNCHANGED <<beside_find, FindArgs, cmsearch_cmd, returncode, n_call, exc>>

NextFind == BuildCommand \/ CallReturns \/ CallRaises \/ RaiseReturnCode \/ ReturnNone

SpecFind == InitFind /\ [][NextFind]_vars

\* The command line of the run, as one string.
C14_CommandLine ==
    JoinWords(<< cmsearch_path, "--cpu", Str(cpu),
                 "-o", out_dir \o "/" \o replicon_id \o "_attc.res",
                 "--tblout", out_dir \o "/" \o replicon_id \o "_attc_table.res",
                 "-E", "10", ModelAttc, RepliconPath >>)

\* C14: find_attc runs cmsearch once and no more; when it has ended, it has
\* returned without exception exactly when the return code is 0, and has
\* otherwise (the process could not be launched, or the return code is not 0)
\* raised a RuntimeError whose message begins with the full command line.
C14_FindAttc ==
    /\ n_call <= 1
    /\ fpc \in {"called", "returned", "raised"} => n_call = 1
    /\ fpc = "returned" => /\ returncode = 0
                           /\ exc = NoException
    /\ fpc = "raised" =>
          /\ exc.type = "RuntimeError"
          /\ \/ /\ returncode = NoReturnCode
                /\ \E err \in LaunchErrors :
                      exc.message = C14_CommandLine \o " failed : " \o err
             \/ /\ returncode # NoReturnCode
                /\ returncode # 0
                /\ exc.message = C14_CommandLine \o " failed returncode = " \o StrInt(returncode)

\* cmsearch was ended by a signal: the return code is negative.
C14_Witness ==
    /\ fpc = "raised"
    /\ returncode # NoReturnCode
    /\ returncode < 0
    /\ n_call = 1

\* ------------------------------------------ merge_results and filter_calin
\* "integron_" + "{:02}".format(j)
IntegronId(j) == "integron_" \o (IF j < 10 THEN "0" \o Str(j) ELSE Str(j))

\* The integrons of a report: the type and the number of attC rows.
IntegronKinds ==
    { <<"CALIN", n>> : n \in 1..MaxAttcRows }
    \cup { <<"complete", n>> : n \in 1..MaxAttcRows }
    \cup { <<"In0", 0>> }

\* The rows of integron j of a replicon: its integrase if it has one, then
\* its attC sites; element numbers the rows of the integron.
IntegronRows(replicon, j, kind) ==
    LET row(elt, e) == [ID_integron |-> IntegronId(j), ID_replicon |-> replicon,
                        element |-> e, type_elt |-> elt, type |-> kind[1]]
        prot == IF kind[1] = "CALIN" THEN <<>> ELSE << row("protein", 0) >>
    IN prot \o [e \in 1..kind[2] |-> row("attC", e)]

\* integrons_report of a replicon: the rows of its integrons, by ID_integron.
RECURSIVE ReportFrom(_, _, _)
ReportFrom(replicon, kinds, j) ==
    IF j > Len(kinds) THEN <<>>
    ELSE IntegronRows(replicon, j, kinds[j]) \o ReportFrom(replicon, kinds, j + 1)

Reports(replicon) ==
    { ReportFrom(replicon, kinds, 1) :
        kinds \in UNION { [1..n -> IntegronKinds] : n \in 0..MaxReportIntegrons } }

\* Lines 50-64: the files without data are skipped, the others concatenated.
RECURSIVE MergeResults(_)
MergeResults(files) ==
    IF files = <<>> THEN <<>> ELSE Head(files) \o MergeResults(Tail(files))

\* Lines 112-114: the CALIN attC rows grouped by ID_integron; the
\* ID_integron of the groups of less than threshold rows.
SmallCalinIds(result, thr) ==
    LET calin(r) == r.type_elt = "attC" /\ r.type = "CALIN"
        rows == SelectSeq(result, calin)
        size(id) == Cardinality({ n \in 1..Len(rows) : rows[n].ID_integron = id })
    IN { rows[n].ID_integron : n \in { m \in 1..Len(rows) : size(rows[m].ID_integron) < thr } }

\* Lines 112-116.
FilterCalin(result, thr) ==
    LET idx == SmallCalinIds(result, thr)
        keep(r) == r.ID_integron \notin idx
    IN SelectSeq(result, keep)

InitResults ==
    /\ SearchIdle
    /\ MaxIdle
    /\ FindIdle
    /\ rpc = "files"
    /\ results_file \in { <<a, b>> : a \in Reports("A"), b \in Reports("B") }
    /\ threshold \in 1..MaxFilterThreshold
    /\ agg_results = <<>>
    /\ filtered = <<>>

\* merge_results(*results_file)
Merge ==
    /\ rpc = "files"
    /\ agg_results' = MergeResults(results_file)
    /\ rpc' = "merged"
    /\ UNCHANGED <<beside_results, results_file, threshold, filtered>>

\* filter_calin(agg_results, threshold)
Filter ==
    /\ rpc = "merged"
    /\ filtered' = FilterCalin(agg_results, threshold)
    /\ rpc' = "filtered"
    /\ UNCHANGED <<beside_results, results_file, threshold, agg_results>>

NextResults == Merge \/ Filter

SpecResults == InitResults /\ [][NextResults]_vars

\* The number of attC rows of an integron of the merged report.
AttcCount(replicon, id) ==
    Cardinality({ n \in 1..Len(agg_results) :
                    /\ agg_results[n].ID_replicon = replicon
                    /\ agg_results[n].ID_integron = id
                    /\ agg_results[n].type_elt = "attC" })

\* C15: of a merged report, the rows of a CALIN integron are in the filtered
\* report exactly when the integron has at least threshold attC rows, an
\* integron being one ID_integron of one replicon.
C15_FilterCalin ==
    rpc = "filtered" =>
        \A n \in 1..Len(agg_results) :
            agg_results[n].type = "CALIN" =>
                ((\E m \in 1..Len(filtered) : filtered[m] = agg_results[n])
                 <=> AttcCount(agg_results[n].ID_replicon, agg_results[n].ID_integron) >= threshold)

\* expand is about to run for a complete integron or a CALIN.
C16_Pre == mpc = "expand" /\ full_element.type \in {"complete", "CALIN"}

\* The largest pos_end of the hits of local_max.
RightmostPosEnd == CHOOSE e \in { df_max[n].pos_end : n \in 1..Len(df_max) } :
                       \A n \in 1..Len(df_max) : df_max[n].pos_end <= e

\* The integrase is to the left of the attC sites (lines 200-203).
C16_IntegraseIsLeft ==
    (full_element.attC[1].pos_beg - full_element.intI[1].pos_end) % size_replicon
        < (full_element.intI[1].pos_beg - full_element.attC[Len(full_element.attC)].pos_end)
            % size_replicon

\* The directions that follow from a left gap and a right gap.
C16_Directions(left_gap, right_gap) ==
    /\ full_element.type = "complete" =>
          /\ go[1] <=> (left_gap < distance_threshold /\ ~C16_IntegraseIsLeft)
          /\ go[2] <=> (right_gap < distance_threshold /\ C16_IntegraseIsLeft)
          /\ ~(go[1] /\ go[2])
    /\ full_element.type = "CALIN" =>
          /\ go[1] <=> left_gap < distance_threshold
          /\ go[2] <=> right_gap < distance_threshold

C16_RightGap ==
    (df_max[Len(df_max)].pos_beg - full_element.attC[Len(full_element.attC)].pos_end)
        % size_replicon

\* C16 as stated: the left gap is measured from the rightmost pos_end of the
\* hits of the new search.
C16_Original ==
    C16_Pre =>
        C16_Directions((full_element.attC[1].pos_beg - RightmostPosEnd) % size_replicon,
                       C16_RightGap)

\* C16 amended: the left gap is measured from the pos_end of the first hit
\* of the new search, the right gap from the pos_beg of its last hit; for a
\* complete integron go_left needs the integrase not to be left and go_right
\* needs it to be left, so the two are never both true; for a CALIN the two
\* gap tests alone decide.
C16_GoLeftGoRight ==
    C16_Pre =>
        C16_Directions((full_element.attC[1].pos_beg - df_max[1].pos_end) % size_replicon,
                       C16_RightGap)

\* A complete integron with the integrase on the right, two hits: the first
\* one ends just before the first attC site, so go_left is true, while the
\* rightmost pos_end is not within distance_threshold.
C16_Witness ==
    /\ C16_Pre
    /\ full_element.type = "complete"
    /\ Len(df_max) = 2
    /\ go = <<TRUE, FALSE>>
    /\ (full_element.attC[1].pos_beg - RightmostPosEnd) % size_replicon >= distance_threshold

\* The smallest and the largest pos_beg of a cluster.
MinPosBeg(c) == CHOOSE p \in { c[i].pos_beg : i \in 1..Len(c) } :
                    \A i \in 1..Len(c) : p <= c[i].pos_beg

MaxPosBeg(c) == CHOOSE p \in { c[i].pos_beg : i \in 1..Len(c) } :
                    \A i \in 1..Len(c) : c[i].pos_beg <= p

\* The pos_beg ranges of two clusters have no position in common.
RangesApart(c, d) == MaxPosBeg(c) < MinPosBeg(d) \/ MaxPosBeg(d) < MinPosBeg(c)

\* Cluster k of the result is a wraparound-merged one: the first cluster of a
\* strand whose last sub-table was put in front of its first.
WrapMerged(k) ==
    /\ run.ok
    /\ \/ k = 1 /\ Len(run.array_plus) < Len(run.split_plus)
       \/ k = Len(run.array_plus) + 1 /\ Len(run.array_minus) < Len(run.split_minus)

\* C17 as stated: the pos_beg ranges of any two distinct clusters of the
\* result do not overlap, unless one of the two is wraparound-merged.
C17_Original ==
    pc = "clustered" =>
        \A k \in 1..Len(run.attc_array) : \A l \in 1..Len(run.attc_array) :
            (k # l /\ ~WrapMerged(k) /\ ~WrapMerged(l)) =>
                RangesApart(run.attc_array[k], run.attc_array[l])

\* C17 amended: the pos_beg ranges of any two distinct clusters of the same
\* strand do not overlap, unless one of the two is wraparound-merged.
C17_NoOverlap ==
    pc = "clustered" =>
        \A k \in 1..Len(run.attc_array) : \A l \in 1..Len(run.attc_array) :
            (/\ k # l
             /\ ~WrapMerged(k)
             /\ ~WrapMerged(l)
             /\ run.attc_array[k][1].sens = run.attc_array[l][1].sens) =>
                RangesApart(run.attc_array[k], run.attc_array[l])

\* Two clusters of the + strand, neither wraparound-merged, and a cluster
\* of the - strand.
C17_Witness ==
    /\ pc = "clustered"
    /\ Len(run.array_plus) = 2
    /\ Len(run.split_plus) = 2
    /\ Len(run.array_minus) = 1
    /\ ~RangesApart(run.array_plus[1], run.array_minus[1])

\* The place of the junction in cluster k: the number of rows that the
\* wraparound merge put in front, 0 when the cluster is not a merged one.
Junction(k) ==
    IF ~WrapMerged(k) THEN 0
    ELSE IF k = 1 /\ Len(run.array_plus) < Len(run.split_plus)
         THEN Len(run.split_plus[Len(run.split_plus)])
         ELSE Len(run.split_minus[Len(run.split_minus)])

\* C18: in every cluster of the result the pos_beg of a row is at most
\* dist_threshold after the pos_beg of the row before it; at the junction
\* of a wraparound-merged cluster the distance is taken modulo replicon_size.
C18_GapsWithin ==
    pc = "clustered" =>
        \A k \in 1..Len(run.attc_array) :
            \A i \in 1..(Len(run.attc_array[k]) - 1) :
                LET gap == run.attc_array[k][i + 1].pos_beg - run.attc_array[k][i].pos_beg
                IN IF i = Junction(k)
                   THEN gap % replicon_size <= dist_threshold
                   ELSE gap <= dist_threshold

\* A wraparound-merged cluster of three rows: two rows of the end of the
\* replicon in front of a row of its start.
C18_Witness ==
    /\ pc = "clustered"
    /\ WrapMerged(1)
    /\ Junction(1) = 2
    /\ Len(run.attc_array[1]) = 3
    /\ run.attc_array[1][2].pos_beg > run.attc_array[1][1].pos_beg
    /\ run.attc_array[1][3].pos_beg < run.attc_array[1][2].pos_beg

\* C19: in a run that goes on, every step leaves the rows of max_final where
\* they are, with their evalue, and only adds rows behind them: the table
\* before the step is the beginning of the table after it, so the row count
\* never decreases.
C19_Monotonic ==
    [][ mpc' # "raised" =>
          /\ Len(max_final) <= Len(max_final')
          /\ \A n \in 1..Len(max_final) : max_final'[n] = max_final[n] ]_vars

\* Both integrons added a row: the first a hit of the worse evalue, the
\* second a hit of the better one.
C19_Witness ==
    /\ mpc = "loop"
    /\ n_done = 2
    /\ Len(max_final) = 2
    /\ max_final[1].evalue = 2
    /\ max_final[2].evalue = 1

\* The step stays with the integron at hand.
C20_SameIntegron == full_element' = full_element /\ n_done' = n_done

\* C20: the integrons are taken one after the other (n_done goes up by one,
\* and the next integron is described only between two turns of the loop);
\* local_max is called from the description of the integron at hand and once,
\* expand is called once and only when local_max has returned hits for that
\* integron; the turn ends, after whatever calls it made, with its hits
\* merged into max_final, before the next integron is taken.
C20_CallOrder ==
    [][ /\ n_done' \in {n_done, n_done + 1}
        /\ mpc' = "describe" =>
              /\ mpc = "loop"
              /\ n_done' = n_done
              /\ max_final' = max_final
              /\ calls' = <<0, 0>>
        /\ mpc' = "local_max" =>
              /\ mpc = "describe"
              /\ C20_SameIntegron
              /\ calls' = <<1, 0>>
        /\ mpc' = "expand" =>
              /\ mpc = "local_max"
              /\ C20_SameIntegron
              /\ df_max' # <<>>
              /\ calls' = <<1, 1>>
        /\ n_done' = n_done + 1 =>
              /\ mpc \in {"describe", "local_max", "expand"}
              /\ mpc' = "loop"
              /\ \A n \in 1..Len(max_elt) : \E m \in 1..Len(max_final') :
                    SameButEvalue(max_final'[m], max_elt[n]) ]_vars

\* expand runs for the second integron, the hits of the first are merged.
C20_Witness ==
    /\ mpc = "expand"
    /\ n_done = 1
    /\ calls = <<1, 1>>
    /\ max_final # <<>>

\* The description at hand is an In0 that is searched (lines 275-276).
C21_In0Searched ==
    /\ mpc = "describe"
    /\ full_element.type = "In0"
    /\ full_element.model # "Phage_integrase"

\* C21: whenever local_max is called, the strand it is given is the one of
\* the description at hand ("top" for strand 1, "bottom" otherwise), and an
\* In0 that is searched does get its call of local_max, whatever integrons
\* came before it.
C21_StrandOwn ==
    [][ /\ mpc' = "local_max" =>
              strand' = (IF full_element.strand = 1 THEN "top" ELSE "bottom")
        /\ C21_In0Searched => mpc' = "local_max" ]_vars

\* The places (cluster, row) of the result that hold the row r.
PlacesOf(r) ==
    { x \in (1..Len(run.attc_array)) \X (1..MaxRows) :
        x[2] <= Len(run.attc_array[x[1]]) /\ run.attc_array[x[1]][x[2]] = r }

\* The rows the result has to hold: all input rows with keep_palindromes,
\* else the rows not beaten by a row of the same pos_beg.
C22_Expected ==
    { attc_df[i] : i \in { j \in 1..Len(attc_df) : keep_palindromes \/ ~Beaten(j) } }

\* C22: every input row (with keep_palindromes), or every row that survives
\* the removal of same-pos_beg duplicates (without), is at exactly one place
\* of the returned clusters, and the clusters hold no other row.
C22_Conserves ==
    pc = "clustered" =>
        /\ \A r \in C22_Expected : Cardinality(PlacesOf(r)) = 1
        /\ ClusterRows(run.attc_array) = C22_Expected

\* Three input rows, one of them dropped as a duplicate, the two others
\* joined by the wraparound merge.
C22_Witness ==
    /\ pc = "clustered"
    /\ ~keep_palindromes
    /\ Len(attc_df) = 3
    /\ Cardinality(C22_Expected) = 2
    /\ WrapMerged(1)
    /\ Len(run.attc_array) = 1

\* Row n of the merged report is one filter_calin has to leave alone: a row
\* of a complete or In0 integron, or of a CALIN with at least threshold attC
\* rows.
C23_ToKeep(n) ==
    \/ agg_results[n].type \in {"complete", "In0"}
    \/ /\ agg_results[n].type = "CALIN"
       /\ AttcCount(agg_results[n].ID_replicon, agg_results[n].ID_integron) >= threshold

\* C23: every row filter_calin has to leave alone is in the filtered report
\* as it was, and the report given to filter_calin is still what
\* merge_results returned.
C23_LeavesRest ==
    rpc = "filtered" =>
        /\ \A n \in 1..Len(agg_results) :
              C23_ToKeep(n) => \E m \in 1..Len(filtered) : filtered[m] = agg_results[n]
        /\ agg_results = MergeResults(results_file)
====
